---- MODULE Spec2Model ----
(***************************************************************************)
(* The social-media API of the repository: the Like / Notification         *)
(* engagement handlers (social_media_api/posts/views.py) and the follow    *)
(* graph handlers (social_media_api/accounts/views.py).                    *)
(*                                                                         *)
(* Every handler is modelled twice from the same helpers: as one atomic    *)
(* action (a request served alone) and as a sequence of store accesses     *)
(* taken by a request slot, so that concurrent requests interleave.        *)
(***************************************************************************)
EXTENDS Integers, Sequences, FiniteSets, TLC

\* ------------------------------------------------------------------ bounds
NumUsers == 2
NumPosts == 2
MaxNotifications == 2
NumRequests == 2
MaxComments == 1
NumBooks == 2

\* ------------------------------------------------------------ identities
\* request.user of a request that carries no credentials
AnonymousUser == 0

Users == 1..NumUsers
PostIds == 1..NumPosts
\* an id no User row / Post row has
UnknownUserId == NumUsers + 1
UnknownPostId == NumPosts + 1
Requesters == Users \cup {AnonymousUser}
UserIdInputs == Users \cup {UnknownUserId}
PostIdInputs == PostIds \cup {UnknownPostId}
Requests == 1..NumRequests

\* post.author of the post with id p (the author is fixed when the row is
\* created): an author has up to two posts, so that a feed can hold two
\* posts of one author
PostAuthor(p) == (((p - 1) \div 2) % NumUsers) + 1

\* post.created_at of the post with id p: never decreasing with the id, and
\* two posts may carry the same timestamp
PostCreatedAt(p) == (p + 1) \div 2

VARIABLES
    likes,          \* Like table: (user, post) -> number of rows
    notifications,  \* Notification table, in insertion order
    following,      \* CustomUser.following through table: (from, to) -> rows
    last,           \* the request last served alone, and its response
    req,            \* request slots: the requests in flight
    posts,          \* Post table: id -> row
    comments,       \* Comment table: id -> row
    authors,        \* catalog, Author table: id -> row
    books,          \* catalog, Book table: id -> row
    current_year,   \* catalog: timezone.now().year
    blog_posts,     \* blog, Post table: id -> row
    blog_comments,  \* blog, Comment table: id -> row
    userprofile     \* library, UserProfile: user -> role

\* the tables of the viewsets and of the book catalog
crudVars == <<posts, comments>>
catalogVars == <<authors, books, current_year>>

\* the tables of the blog and of the library
libraryVars == <<userprofile>>
siteVars == <<blog_posts, blog_comments, libraryVars>>

vars == <<likes, notifications, following, last, req, crudVars, catalogVars, siteVars>>

\* ------------------------------------------------------------- responses
Response(status, key, text) == [status |-> status, key |-> key, text |-> text]

\* permissions.IsAuthenticated failing: 401 or 403, by the authentication
\* classes the project is configured with
NotAuthenticatedStatus == {401, 403}
NotAuthenticated(s) == Response(s, "detail", "Authentication credentials were not provided.")
NotFound == Response(404, "detail", "Not found.")
ServerError(exc) == Response(500, "exception", exc)

IsAuthenticated(u) == u # AnonymousUser

\* the requests of the social API, and the HTTP method each arrives with
FunctionViewOps == {"like_post", "unlike_post", "follow", "unfollow", "user_feed"}
ViewSetOps ==
    {"post_create", "post_update", "post_destroy",
     "comment_create", "comment_update", "comment_destroy"}
ApiOps == FunctionViewOps \cup ViewSetOps
WriteOps == ApiOps \ {"user_feed"}

Method(op) ==
    IF op = "user_feed" THEN "GET"
    ELSE IF op \in {"post_update", "comment_update"} THEN "PUT"
    ELSE IF op \in {"post_destroy", "comment_destroy"} THEN "DELETE"
    ELSE "POST"

SAFE_METHODS == {"GET", "HEAD", "OPTIONS"}

\* every request let through
IsAuthenticatedOrReadOnlyAllowAny(method, u) == TRUE

\* permissions.IsAuthenticatedOrReadOnly of PostViewSet and CommentViewSet
IsAuthenticatedOrReadOnly(method, u) ==
    method \in SAFE_METHODS \/ IsAuthenticated(u)

\* the permission classes of the view the request is routed to
HasPermission(op, u) ==
    IF op \in ViewSetOps THEN IsAuthenticatedOrReadOnly(Method(op), u)
    ELSE IsAuthenticated(u)

\* ------------------------------------------------------------ Like store
\* Like.Meta: one row per (user, post)
LikeUniqueTogether == TRUE

LikeRows(rows, u, p) == rows[<<u, p>>]

\* the lookup filtering on the post alone
LikeGetAnyUser(rows, u, p) ==
    IF \E v \in Users : LikeRows(rows, v, p) > 0 THEN "found" ELSE "DoesNotExist"

\* Like.objects.get(user=u, post=p)
LikeGet(rows, u, p) ==
    IF LikeRows(rows, u, p) = 0 THEN "DoesNotExist"
    ELSE IF LikeRows(rows, u, p) = 1 THEN "found"
    ELSE "MultipleObjectsReturned"

\* the INSERT going through whatever is stored
LikeInsertUnchecked(rows, u, p) ==
    [rows |-> [rows EXCEPT ![<<u, p>>] = @ + 1], exc |-> "none"]

\* the INSERT of get_or_create's create(): refused by the unique constraint
LikeInsert(rows, u, p) ==
    IF LikeUniqueTogether /\ LikeRows(rows, u, p) > 0
    THEN [rows |-> rows, exc |-> "IntegrityError"]
    ELSE [rows |-> [rows EXCEPT ![<<u, p>>] = @ + 1], exc |-> "none"]

\* the fetched row left in place
LikeDeleteNothing(rows, u, p) == rows

\* like.delete(): DELETE of the fetched row (no row left: deletes nothing)
LikeDelete(rows, u, p) ==
    [rows EXCEPT ![<<u, p>>] = IF @ > 0 THEN @ - 1 ELSE 0]

\* Like.objects.get_or_create(user=u, post=p), run without interleaving
get_or_create(rows, u, p) ==
    LET g == LikeGet(rows, u, p) IN
    IF g = "found" THEN [rows |-> rows, created |-> FALSE, exc |-> "none"]
    ELSE IF g = "MultipleObjectsReturned"
    THEN [rows |-> rows, created |-> FALSE, exc |-> g]
    ELSE LET ins == LikeInsert(rows, u, p) IN
         IF ins.exc = "none"
         THEN [rows |-> ins.rows, created |-> TRUE, exc |-> "none"]
         ELSE LET g2 == LikeGet(rows, u, p) IN
              IF g2 = "found"
              THEN [rows |-> rows, created |-> FALSE, exc |-> "none"]
              ELSE [rows |-> rows, created |-> FALSE,
                    exc |-> IF g2 = "DoesNotExist" THEN "IntegrityError" ELSE g2]

\* the created flag ignored
AlreadyLikedNever(created) == FALSE

\* `if not created:` of like_post
AlreadyLiked(created) == ~created

\* ---------------------------------------------------- Notification store
\* recipient and actor swapped
NotificationCreateSwapped(log, u, p) ==
    Append(log, [recipient |-> u, actor |-> PostAuthor(p),
                 verb |-> "liked your post", content_type |-> "post",
                 object_id |-> p])

\* the notification log overwritten by the new record
NotificationCreateReplace(log, u, p) ==
    <<[recipient |-> PostAuthor(p), actor |-> u, verb |-> "liked your post",
       content_type |-> "post", object_id |-> p]>>

\* Notification.objects.create(recipient=post.author, actor=request.user, ...)
NotificationCreate(log, u, p) ==
    Append(log, [recipient |-> PostAuthor(p), actor |-> u,
                 verb |-> "liked your post", content_type |-> "post",
                 object_id |-> p])

NotifCount(log, u, p) ==
    Cardinality({i \in 1..Len(log) : log[i].actor = u /\ log[i].object_id = p})

\* ---------------------------------------------------------- follow graph
\* CustomUser.following: a directed relation (symmetrical=False)
FollowingSymmetrical == FALSE

followees_of(rel, a) == {b \in Users : rel[<<a, b>>] > 0}

\* a lookup that finds a user under every id
UserStoredAlways(pk) == TRUE

\* get_object_or_404(CustomUser, id=user_id) finding the row
UserStored(pk) == pk \in Users

\* the self-follow test left out
IsSelfNever(target, u) == FALSE

\* `if target_user == request.user:` of FollowUserView.post
IsSelf(target, u) == target = u

\* the edge added in both directions
FollowingAddBothWays(rel, a, b) ==
    [e \in Users \X Users |->
        IF (e = <<a, b>> \/ e = <<b, a>>) /\ rel[e] = 0 THEN 1 ELSE rel[e]]

\* a row inserted on every call
FollowingAddDuplicate(rel, a, b) == [rel EXCEPT ![<<a, b>>] = @ + 1]

\* request.user.following.add(target): inserts the rows that are missing
FollowingAdd(rel, a, b) ==
    [e \in Users \X Users |->
        IF (e = <<a, b>> \/ (FollowingSymmetrical /\ e = <<b, a>>)) /\ rel[e] = 0
        THEN 1 ELSE rel[e]]

\* every edge of the follower deleted (clear())
FollowingRemoveAll(rel, a, b) ==
    [e \in Users \X Users |-> IF e[1] = a THEN 0 ELSE rel[e]]

\* request.user.following.remove(target): deletes the matching rows
FollowingRemove(rel, a, b) ==
    [e \in Users \X Users |->
        IF e = <<a, b>> \/ (FollowingSymmetrical /\ e = <<b, a>>)
        THEN 0 ELSE rel[e]]

\* ------------------------------------------------- Post and Comment rows
\* an id with no row stored
NoRow == [stored |-> FALSE]

\* the content a PostSerializer / CommentSerializer request carries
Bodies == {"first", "edited"}
FirstBody == "first"

\* a Post row; its author and created_at are PostAuthor and PostCreatedAt
PostRow(body) == [stored |-> TRUE, body |-> body]

CommentIds == 1..MaxComments
CommentIdInputs == CommentIds \cup {MaxComments + 1}

CommentRow(post, author, body) ==
    [stored |-> TRUE, post |-> post, author |-> author, body |-> body]

\* Post.objects.filter(pk=pk).exists()
PostStored(pk) == pk \in PostIds /\ posts[pk].stored

CommentStored(pk) == pk \in CommentIds /\ comments[pk].stored

\* ---------------------------------------------------------- book catalog
\* timezone.now().year when the catalog starts, and the last year modelled
FirstYear == 2025
LastYear == FirstYear + 1

\* the publication years a request may carry: past, present and future ones
PublicationYears == FirstYear..(LastYear + 1)

Titles == {"1984", "The Hobbit"}

AuthorIds == {1, 2}
BookIds == 1..NumBooks
UnknownBookId == NumBooks + 1
BookIdInputs == BookIds \cup {UnknownBookId}

\* the authors of the fixture
AuthorName(a) == IF a = 1 THEN "George Orwell" ELSE "J.R.R. Tolkien"

AuthorRow(name) == [stored |-> TRUE, name |-> name]

\* created_at (auto_now_add) is the time of the INSERT. Only the order of
\* the timestamps can be observed, so a row holds the number of its INSERT:
\* 1 for the first book ever inserted. Requests are served one at a time and
\* get distinct timestamps.
BookRow(title, publication_year, author, created_at) ==
    [stored |-> TRUE, title |-> title, publication_year |-> publication_year,
     author |-> author, created_at |-> created_at]

AuthorStored(pk) == pk \in AuthorIds /\ authors[pk].stored

BookStored(pk) == pk \in BookIds /\ books[pk].stored

\* ------------------------------------------------------------------ blog
\* the Post and Comment tables of the blog; an author of NoAuthor is a row
\* saved without author
NoAuthor == 0

BlogPostRow(content, author) ==
    [stored |-> TRUE, content |-> content, author |-> author]

BlogPostStored(pk) == pk \in PostIds /\ blog_posts[pk].stored
BlogCommentStored(pk) == pk \in CommentIds /\ blog_comments[pk].stored

\* --------------------------------------------------------------- library
\* UserProfile.role; NoProfile: the user has no UserProfile row
Roles == {"Admin", "Librarian", "Member"}
NoProfile == "none"

\* ------------------------------------------------------------------ Init
IdleRequest ==
    [pc |-> "idle", op |-> "none", user |-> AnonymousUser, pk |-> 0,
     created |-> FALSE, response |-> Response(0, "", ""), data |-> <<>>]

NoRequest ==
    [op |-> "none", user |-> AnonymousUser, pk |-> 0, existed |-> FALSE,
     response |-> Response(0, "", ""), data |-> <<>>]

InitStores ==
    /\ likes = [e \in Users \X PostIds |-> 0]
    /\ notifications = <<>>
    /\ following = [e \in Users \X Users |-> 0]
    /\ last = NoRequest
    /\ req = [r \in Requests |-> IdleRequest]
    /\ posts = [p \in PostIds |-> PostRow(FirstBody)]
    /\ comments = [c \in CommentIds |-> NoRow]
    /\ authors = [a \in AuthorIds |-> IF a = 1 THEN AuthorRow(AuthorName(a)) ELSE NoRow]
    /\ books = [b \in BookIds |-> NoRow]
    /\ current_year = FirstYear
    /\ blog_posts = [p \in PostIds |->
                        IF p = 1 THEN BlogPostRow(FirstBody, 1) ELSE NoRow]
    /\ blog_comments = [c \in CommentIds |-> NoRow]

\* the state after construction: no user has a profile
Init ==
    /\ InitStores
    /\ userprofile = [u \in Users |-> NoProfile]

\* the library with the profiles the users may have
InitLibrary ==
    /\ InitStores
    /\ userprofile \in [Users -> Roles \cup {NoProfile}]

\* existed: whether the row the request names (the Like, the follow edge)
\* was stored when the request arrived
Existed(op, u, pk) ==
    IF u \notin Users THEN FALSE
    ELSE IF op \in {"like_post", "unlike_post"}
    THEN PostStored(pk) /\ LikeRows(likes, u, pk) > 0
    ELSE pk \in Users /\ following[<<u, pk>>] > 0

Served(op, u, pk, resp) ==
    [op |-> op, user |-> u, pk |-> pk, existed |-> Existed(op, u, pk),
     response |-> resp, data |-> <<>>]

\* ------------------------------------------- handlers, one request alone
\* posts/views.py like_post
like_post(u, pk) ==
    /\ UNCHANGED <<following, req, crudVars, catalogVars, siteVars>>
    /\ IF ~IsAuthenticated(u)
       THEN /\ \E s \in NotAuthenticatedStatus :
                  last' = Served("like_post", u, pk, NotAuthenticated(s))
            /\ UNCHANGED <<likes, notifications>>
       ELSE IF ~PostStored(pk)
       THEN /\ last' = Served("like_post", u, pk, NotFound)
            /\ UNCHANGED <<likes, notifications>>
       ELSE LET goc == get_or_create(likes, u, pk) IN
            IF goc.exc # "none"
            THEN /\ last' = Served("like_post", u, pk, ServerError(goc.exc))
                 /\ UNCHANGED <<likes, notifications>>
            ELSE IF AlreadyLiked(goc.created)
            THEN /\ likes' = goc.rows
                 /\ last' = Served("like_post", u, pk, Response(400, "detail", "Already liked"))
                 /\ UNCHANGED notifications
            ELSE /\ Len(notifications) < MaxNotifications
                 /\ likes' = goc.rows
                 /\ notifications' = NotificationCreate(notifications, u, pk)
                 /\ last' = Served("like_post", u, pk, Response(200, "detail", "Post liked"))

\* posts/views.py unlike_post (the message's typographic apostrophe is
\* written ' here)
unlike_post(u, pk) ==
    /\ UNCHANGED <<following, req, notifications, crudVars, catalogVars, siteVars>>
    /\ IF ~IsAuthenticated(u)
       THEN /\ \E s \in NotAuthenticatedStatus :
                  last' = Served("unlike_post", u, pk, NotAuthenticated(s))
            /\ UNCHANGED likes
       ELSE IF ~PostStored(pk)
       THEN /\ last' = Served("unlike_post", u, pk, NotFound)
            /\ UNCHANGED likes
       ELSE LET g == LikeGet(likes, u, pk) IN
            IF g = "found"
            THEN /\ likes' = LikeDelete(likes, u, pk)
                 /\ last' = Served("unlike_post", u, pk, Response(200, "detail", "Post unliked"))
            ELSE IF g = "DoesNotExist"
            THEN /\ last' = Served("unlike_post", u, pk,
                                   Response(400, "detail", "You haven't liked this post"))
                 /\ UNCHANGED likes
            ELSE /\ last' = Served("unlike_post", u, pk, ServerError(g))
                 /\ UNCHANGED likes

\* accounts/views.py FollowUserView.post
FollowUserView_post(u, user_id) ==
    /\ UNCHANGED <<likes, notifications, req, crudVars, catalogVars, siteVars>>
    /\ IF ~IsAuthenticated(u)
       THEN /\ \E s \in NotAuthenticatedStatus :
                  last' = Served("follow", u, user_id, NotAuthenticated(s))
            /\ UNCHANGED following
       ELSE IF ~UserStored(user_id)
       THEN /\ last' = Served("follow", u, user_id, NotFound)
            /\ UNCHANGED following
       ELSE IF IsSelf(user_id, u)
       THEN /\ last' = Served("follow", u, user_id,
                              Response(400, "error", "You can't follow yourself."))
            /\ UNCHANGED following
       ELSE /\ following' = FollowingAdd(following, u, user_id)
            /\ last' = Served("follow", u, user_id,
                              Response(200, "message", "You are now following"))

\* accounts/views.py UnfollowUserView.post
UnfollowUserView_post(u, user_id) ==
    /\ UNCHANGED <<likes, notifications, req, crudVars, catalogVars, siteVars>>
    /\ IF ~IsAuthenticated(u)
       THEN /\ \E s \in NotAuthenticatedStatus :
                  last' = Served("unfollow", u, user_id, NotAuthenticated(s))
            /\ UNCHANGED following
       ELSE IF ~UserStored(user_id)
       THEN /\ last' = Served("unfollow", u, user_id, NotFound)
            /\ UNCHANGED following
       ELSE /\ following' = FollowingRemove(following, u, user_id)
            /\ last' = Served("unfollow", u, user_id,
                              Response(200, "message", "You have unfollowed"))

\* the posts of the users who follow u
FeedPostsOfFollowers(rel, u) ==
    {p \in PostIds : PostStored(p) /\ u \in followees_of(rel, PostAuthor(p))}

\* Post.objects.filter(author__in=following_users)
FeedPosts(rel, u) ==
    {p \in PostIds : PostStored(p) /\ PostAuthor(p) \in followees_of(rel, u)}

\* .order_by('-created_at'): every order of the rows that is descending in
\* created_at (the order of rows with equal created_at is the database's)
OrderByCreatedAtDesc(S) ==
    {s \in [1..Cardinality(S) -> S] :
        /\ \A i, j \in 1..Cardinality(S) : i # j => s[i] # s[j]
        /\ \A i, j \in 1..Cardinality(S) :
               i < j => PostCreatedAt(s[i]) >= PostCreatedAt(s[j])}

\* posts/views.py user_feed
user_feed(u) ==
    /\ UNCHANGED <<likes, notifications, following, req, crudVars, catalogVars, siteVars>>
    /\ IF ~IsAuthenticated(u)
       THEN \E s \in NotAuthenticatedStatus :
                last' = Served("user_feed", u, 0, NotAuthenticated(s))
       ELSE \E feed \in OrderByCreatedAtDesc(FeedPosts(following, u)) :
                last' = [Served("user_feed", u, 0, Response(200, "posts", ""))
                            EXCEPT !.data = feed]

\* ------------------------------------- handlers, one store access a step
Running(r) == req[r].pc \notin {"idle", "done"}

\* notifications already written plus those requests in flight may write
NotificationsDue ==
    Len(notifications)
        + Cardinality({r \in Requests : Running(r) /\ req[r].op = "like_post"})

Goto(r, pc) == [req[r] EXCEPT !.pc = pc]

Done(r, resp) == [req[r] EXCEPT !.pc = "done", !.response = resp]

\* comment rows stored plus those requests in flight may insert
CommentsDue ==
    Cardinality({c \in CommentIds : comments[c].stored})
        + Cardinality({r \in Requests : Running(r) /\ req[r].op = "comment_create"})

\* the ids a new post of user u can take, less those that post_create
\* requests of u in flight will take
FreePostIds(u) == {p \in PostIds : ~posts[p].stored /\ PostAuthor(p) = u}
PostIdsLeft(u) ==
    Cardinality(FreePostIds(u))
        - Cardinality({r \in Requests :
               Running(r) /\ req[r].op = "post_create" /\ req[r].user = u})

\* the permission classes of the view (check_permissions), before the view
\* body, and then the first statement of the view body
StartRequest(r, op, u, pk) ==
    /\ req[r].pc = "idle"
    /\ op = "like_post" => NotificationsDue < MaxNotifications
    /\ (op = "comment_create" /\ HasPermission(op, u)) => CommentsDue < MaxComments
    /\ (op = "post_create" /\ HasPermission(op, u)) => PostIdsLeft(u) > 0
    /\ IF ~HasPermission(op, u)
       THEN \E s \in NotAuthenticatedStatus :
                req' = [req EXCEPT ![r] =
                           [pc |-> "done", op |-> op, user |-> u, pk |-> pk,
                            created |-> FALSE, response |-> NotAuthenticated(s),
                            data |-> <<>>]]
       ELSE req' = [req EXCEPT ![r] =
                       [pc |-> IF op \in {"like_post", "unlike_post"}
                               THEN "get_post" ELSE op,
                        op |-> op, user |-> u, pk |-> pk,
                        created |-> FALSE, response |-> Response(0, "", ""),
                        data |-> <<>>]]
    /\ UNCHANGED <<likes, notifications, following, last, crudVars, catalogVars, siteVars>>

\* post = generics.get_object_or_404(Post, pk=pk)
GetPost(r) ==
    /\ req[r].pc = "get_post"
    /\ req' = [req EXCEPT ![r] =
                  IF ~PostStored(req[r].pk) THEN Done(r, NotFound)
                  ELSE Goto(r, IF req[r].op = "like_post"
                                  THEN "like_get" ELSE "unlike_get")]
    /\ UNCHANGED <<likes, notifications, following, last, crudVars, catalogVars, siteVars>>

\* get_or_create: self.get(**kwargs)
LikeGetStep(r) ==
    /\ req[r].pc = "like_get"
    /\ LET g == LikeGet(likes, req[r].user, req[r].pk) IN
       req' = [req EXCEPT ![r] =
                  IF g = "DoesNotExist" THEN Goto(r, "like_create")
                  ELSE IF g = "found"
                  THEN IF AlreadyLiked(FALSE)
                       THEN Done(r, Response(400, "detail", "Already liked"))
                       ELSE Goto(r, "notify")
                  ELSE Done(r, ServerError(g))]
    /\ UNCHANGED <<likes, notifications, following, last, crudVars, catalogVars, siteVars>>

\* get_or_create: self.create(**params) inside transaction.atomic(); the
\* INSERT of a Like whose post row is gone fails on the foreign key
LikeCreateStep(r) ==
    /\ req[r].pc = "like_create"
    /\ LET ins == IF PostStored(req[r].pk)
                  THEN LikeInsert(likes, req[r].user, req[r].pk)
                  ELSE [rows |-> likes, exc |-> "IntegrityError"] IN
       /\ likes' = ins.rows
       /\ req' = [req EXCEPT ![r] =
                     IF ins.exc # "none" THEN Goto(r, "like_reget")
                     ELSE IF AlreadyLiked(TRUE)
                     THEN Done(r, Response(400, "detail", "Already liked"))
                     ELSE [req[r] EXCEPT !.pc = "notify", !.created = TRUE]]
    /\ UNCHANGED <<notifications, following, last, crudVars, catalogVars, siteVars>>

\* get_or_create: except IntegrityError: self.get(**kwargs), else re-raise
LikeRegetStep(r) ==
    /\ req[r].pc = "like_reget"
    /\ LET g == LikeGet(likes, req[r].user, req[r].pk) IN
       req' = [req EXCEPT ![r] =
                  IF g = "found"
                  THEN IF AlreadyLiked(FALSE)
                       THEN Done(r, Response(400, "detail", "Already liked"))
                       ELSE Goto(r, "notify")
                  ELSE Done(r, ServerError(IF g = "DoesNotExist"
                                           THEN "IntegrityError" ELSE g))]
    /\ UNCHANGED <<likes, notifications, following, last, crudVars, catalogVars, siteVars>>

\* Notification.objects.create(...); return Response('Post liked')
NotifyStep(r) ==
    /\ req[r].pc = "notify"
    /\ notifications' = NotificationCreate(notifications, req[r].user, req[r].pk)
    /\ req' = [req EXCEPT ![r] = Done(r, Response(200, "detail", "Post liked"))]
    /\ UNCHANGED <<likes, following, last, crudVars, catalogVars, siteVars>>

\* Notification.objects.create(...) raising: the store fails the INSERT
NotifyFail(r) ==
    /\ req[r].pc = "notify"
    /\ req' = [req EXCEPT ![r] = Done(r, ServerError("DatabaseError"))]
    /\ UNCHANGED <<likes, notifications, following, last, crudVars, catalogVars, siteVars>>

\* unlike_post: like = Like.objects.get(user=request.user, post=post)
UnlikeGetStep(r) ==
    /\ req[r].pc = "unlike_get"
    /\ LET g == LikeGet(likes, req[r].user, req[r].pk) IN
       req' = [req EXCEPT ![r] =
                  IF g = "found" THEN Goto(r, "unlike_delete")
                  ELSE IF g = "DoesNotExist"
                  THEN Done(r, Response(400, "detail", "You haven't liked this post"))
                  ELSE Done(r, ServerError(g))]
    /\ UNCHANGED <<likes, notifications, following, last, crudVars, catalogVars, siteVars>>

\* unlike_post: like.delete(); return Response('Post unliked')
UnlikeDeleteStep(r) ==
    /\ req[r].pc = "unlike_delete"
    /\ likes' = LikeDelete(likes, req[r].user, req[r].pk)
    /\ req' = [req EXCEPT ![r] = Done(r, Response(200, "detail", "Post unliked"))]
    /\ UNCHANGED <<notifications, following, last, crudVars, catalogVars, siteVars>>

LikeSteps(r) ==
    \/ GetPost(r)
    \/ LikeGetStep(r)
    \/ LikeCreateStep(r)
    \/ LikeRegetStep(r)
    \/ NotifyStep(r)

UnlikeSteps(r) ==
    \/ UnlikeGetStep(r)
    \/ UnlikeDeleteStep(r)

\* FollowUserView.post, the view body
FollowStep(r) ==
    /\ req[r].pc = "follow"
    /\ LET u == req[r].user
           user_id == req[r].pk IN
       IF ~UserStored(user_id)
       THEN /\ req' = [req EXCEPT ![r] = Done(r, NotFound)]
            /\ UNCHANGED following
       ELSE IF IsSelf(user_id, u)
       THEN /\ req' = [req EXCEPT ![r] =
                          Done(r, Response(400, "error", "You can't follow yourself."))]
            /\ UNCHANGED following
       ELSE /\ following' = FollowingAdd(following, u, user_id)
            /\ req' = [req EXCEPT ![r] =
                          Done(r, Response(200, "message", "You are now following"))]
    /\ UNCHANGED <<likes, notifications, last, crudVars, catalogVars, siteVars>>

\* UnfollowUserView.post, the view body
UnfollowStep(r) ==
    /\ req[r].pc = "unfollow"
    /\ LET u == req[r].user
           user_id == req[r].pk IN
       IF ~UserStored(user_id)
       THEN /\ req' = [req EXCEPT ![r] = Done(r, NotFound)]
            /\ UNCHANGED following
       ELSE /\ following' = FollowingRemove(following, u, user_id)
            /\ req' = [req EXCEPT ![r] =
                          Done(r, Response(200, "message", "You have unfollowed"))]
    /\ UNCHANGED <<likes, notifications, last, crudVars, catalogVars, siteVars>>

\* user_feed, the view body
FeedStep(r) ==
    /\ req[r].pc = "user_feed"
    /\ \E feed \in OrderByCreatedAtDesc(FeedPosts(following, req[r].user)) :
           req' = [req EXCEPT ![r] =
                      [Done(r, Response(200, "posts", "")) EXCEPT !.data = feed]]
    /\ UNCHANGED <<likes, notifications, following, last, crudVars, catalogVars, siteVars>>

\* Like.post and Comment.post: the rows of a deleted post go with it
LikesOnDeletePost(rows, pk) ==
    [e \in Users \X PostIds |-> IF e[2] = pk THEN 0 ELSE rows[e]]

CommentsOnDeletePost(rows, pk) ==
    [c \in CommentIds |->
        IF rows[c].stored /\ rows[c].post = pk THEN NoRow ELSE rows[c]]

\* PostViewSet.create: the new row belongs to the requesting user
PostCreateStep(r) ==
    /\ req[r].pc = "post_create"
    /\ \E p \in FreePostIds(req[r].user), body \in Bodies :
           /\ posts' = [posts EXCEPT ![p] = PostRow(body)]
           /\ req' = [req EXCEPT ![r] =
                         [Done(r, Response(201, "id", "")) EXCEPT !.data = <<p>>]]
    /\ UNCHANGED <<likes, notifications, following, last, comments, catalogVars, siteVars>>

\* PostViewSet.update / partial_update: get_object(), then the serializer
\* saves the content of the request
PostUpdateStep(r) ==
    /\ req[r].pc = "post_update"
    /\ IF ~PostStored(req[r].pk)
       THEN /\ req' = [req EXCEPT ![r] = Done(r, NotFound)]
            /\ UNCHANGED posts
       ELSE \E body \in Bodies :
                /\ posts' = [posts EXCEPT ![req[r].pk] = PostRow(body)]
                /\ req' = [req EXCEPT ![r] = Done(r, Response(200, "id", ""))]
    /\ UNCHANGED <<likes, notifications, following, last, comments, catalogVars, siteVars>>

\* PostViewSet.destroy: get_object(), instance.delete()
PostDestroyStep(r) ==
    /\ req[r].pc = "post_destroy"
    /\ IF ~PostStored(req[r].pk)
       THEN /\ req' = [req EXCEPT ![r] = Done(r, NotFound)]
            /\ UNCHANGED <<posts, likes, comments>>
       ELSE /\ posts' = [posts EXCEPT ![req[r].pk] = NoRow]
            /\ likes' = LikesOnDeletePost(likes, req[r].pk)
            /\ comments' = CommentsOnDeletePost(comments, req[r].pk)
            /\ req' = [req EXCEPT ![r] = Done(r, Response(204, "", ""))]
    /\ UNCHANGED <<notifications, following, last, catalogVars, siteVars>>

\* the creation of a comment notifying the author of the post
CommentCreateStepNotifying(r) ==
    /\ req[r].pc = "comment_create"
    /\ IF ~PostStored(req[r].pk)
       THEN /\ req' = [req EXCEPT ![r] =
                          Done(r, Response(400, "post", "Invalid pk - object does not exist."))]
            /\ UNCHANGED <<comments, notifications>>
       ELSE \E c \in {c \in CommentIds : ~comments[c].stored}, body \in Bodies :
                /\ comments' = [comments EXCEPT ![c] =
                                    CommentRow(req[r].pk, req[r].user, body)]
                /\ notifications' =
                       NotificationCreate(notifications, req[r].user, req[r].pk)
                /\ req' = [req EXCEPT ![r] =
                              [Done(r, Response(201, "id", "")) EXCEPT !.data = <<c>>]]
    /\ UNCHANGED <<likes, following, last, posts, catalogVars, siteVars>>

\* CommentViewSet.create: the serializer refuses a post that is not stored
CommentCreateStep(r) ==
    /\ req[r].pc = "comment_create"
    /\ IF ~PostStored(req[r].pk)
       THEN /\ req' = [req EXCEPT ![r] =
                          Done(r, Response(400, "post", "Invalid pk - object does not exist."))]
            /\ UNCHANGED comments
       ELSE \E c \in {c \in CommentIds : ~comments[c].stored}, body \in Bodies :
                /\ comments' = [comments EXCEPT ![c] =
                                    CommentRow(req[r].pk, req[r].user, body)]
                /\ req' = [req EXCEPT ![r] =
                              [Done(r, Response(201, "id", "")) EXCEPT !.data = <<c>>]]
    /\ UNCHANGED <<likes, notifications, following, last, posts, catalogVars, siteVars>>

\* CommentViewSet.update / partial_update
CommentUpdateStep(r) ==
    /\ req[r].pc = "comment_update"
    /\ IF ~CommentStored(req[r].pk)
       THEN /\ req' = [req EXCEPT ![r] = Done(r, NotFound)]
            /\ UNCHANGED comments
       ELSE \E body \in Bodies :
                /\ comments' = [comments EXCEPT ![req[r].pk].body = body]
                /\ req' = [req EXCEPT ![r] = Done(r, Response(200, "id", ""))]
    /\ UNCHANGED <<likes, notifications, following, last, posts, catalogVars, siteVars>>

\* CommentViewSet.destroy
CommentDestroyStep(r) ==
    /\ req[r].pc = "comment_destroy"
    /\ IF ~CommentStored(req[r].pk)
       THEN /\ req' = [req EXCEPT ![r] = Done(r, NotFound)]
            /\ UNCHANGED comments
       ELSE /\ comments' = [comments EXCEPT ![req[r].pk] = NoRow]
            /\ req' = [req EXCEPT ![r] = Done(r, Response(204, "", ""))]
    /\ UNCHANGED <<likes, notifications, following, last, posts, catalogVars, siteVars>>

FollowSteps(r) ==
    \/ FollowStep(r)
    \/ UnfollowStep(r)
    \/ FeedStep(r)

ViewSetSteps(r) ==
    \/ PostCreateStep(r)
    \/ PostUpdateStep(r)
    \/ PostDestroyStep(r)
    \/ CommentCreateStep(r)
    \/ CommentUpdateStep(r)
    \/ CommentDestroyStep(r)

\* the id a request of each kind names
PkInputs(op) ==
    IF op \in {"follow", "unfollow"} THEN UserIdInputs
    ELSE IF op \in {"comment_update", "comment_destroy"} THEN CommentIdInputs
    ELSE IF op \in {"user_feed", "post_create"} THEN {0}
    ELSE PostIdInputs

\* ------------------------------------------- book catalog, the handlers
socialVars == <<likes, notifications, following, req, crudVars>>

\* the client of the tests (regular_user), and the anonymous client
TestUser == 1
Clients == {AnonymousUser, TestUser}

\* a field of the request body: <<value>>, or Omitted when the body does not
\* carry the field
Omitted == <<>>
Sent(values) == {<<v>> : v \in values}

\* a refused request of the catalog: 403
Forbidden == Response(403, "detail", "Authentication credentials were not provided.")

\* every request let through
CustomIsAuthenticatedOrReadOnlyAllowAny(method, u) == TRUE

\* api/permissions.py IsAuthenticatedOrReadOnly.has_permission
CustomIsAuthenticatedOrReadOnly(method, u) ==
    IF method \in SAFE_METHODS THEN TRUE ELSE IsAuthenticated(u)

\* future: whether the request carried a publication_year greater than the
\* current year; existed: whether the book or author it names was stored
CatalogServed(op, u, pk, future, resp, data) ==
    [op |-> op, user |-> u, pk |-> pk,
     existed |-> IF op \in {"author_detail"} THEN AuthorStored(pk) ELSE BookStored(pk),
     future |-> future, response |-> resp, data |-> data, sent |-> <<>>]

IsFuture(year) == year # Omitted /\ year[1] > current_year

\* the future test left out
validate_publication_year_any(value) ==
    IF value < 1000 THEN "invalid" ELSE "ok"

\* the range test alone: years up to five after the current one pass
validate_publication_year_preorder(value) ==
    IF value < 1000 \/ value > current_year + 5 THEN "invalid" ELSE "ok"

\* BookSerializer.validate_publication_year
validate_publication_year(value) ==
    IF value > current_year THEN "future"
    ELSE IF value < 1000 \/ value > current_year + 5 THEN "invalid"
    ELSE "ok"

\* a call of BookSerializer.validate_publication_year: data is <<the value
\* returned>>, or <<>> when ValidationError is raised
BookSerializer_validate_publication_year(value) ==
    LET outcome == validate_publication_year(value) IN
    /\ last' = [CatalogServed("validate_publication_year", AnonymousUser, 0,
                              value > current_year,
                              Response(0, "outcome", outcome),
                              IF outcome = "ok" THEN <<value>> ELSE <<>>)
                   EXCEPT !.sent = value]
    /\ UNCHANGED <<socialVars, siteVars, catalogVars, siteVars>>

\* BookSerializer, the fields that fail validation (partial: a PATCH)
BookFieldErrors(title, year, author, partial) ==
    {f \in {"title", "publication_year", "author"} :
        \/ f = "title" /\ title = Omitted /\ ~partial
        \/ f = "publication_year" /\
               IF year = Omitted THEN ~partial
               ELSE validate_publication_year(year[1]) # "ok"
        \/ f = "author" /\
               IF author = Omitted THEN ~partial ELSE ~AuthorStored(author[1])}

\* the stored books other than self_pk with this title and author
BooksWith(title, author, self_pk) ==
    {b \in BookIds \ {self_pk} :
        books[b].stored /\ books[b].title = title /\ books[b].author = author}

\* Book.clean
Book_clean(publication_year) ==
    IF publication_year > current_year THEN {"publication_year"} ELSE {}

\* Book.full_clean: clean_fields, clean, validate_unique; the errors of the
\* ValidationError it raises
Book_full_clean(title, publication_year, author, self_pk) ==
    (IF AuthorStored(author) THEN {} ELSE {"author"})
        \cup Book_clean(publication_year)
        \cup (IF BooksWith(title, author, self_pk) # {} THEN {"__all__"} ELSE {})

\* created_at of a row inserted now: later than that of every row inserted
\* before, deleted ones included
auto_now_add(rows) == Cardinality({b \in BookIds : rows[b] # NoRow}) + 1


\* the INSERT / UPDATE of super().save(): refused by unique_together
BookWrite(rows, pk, title, publication_year, author) ==
    IF BooksWith(title, author, pk) # {}
    THEN [rows |-> rows, exc |-> "IntegrityError"]
    ELSE [rows |-> [rows EXCEPT ![pk] =
                       BookRow(title, publication_year, author,
                               IF rows[pk].stored THEN rows[pk].created_at
                               ELSE auto_now_add(rows))],
          exc |-> "none"]

\* Book.save: full_clean(), then super().save()
Book_save_row(rows, pk, title, publication_year, author) ==
    IF Book_full_clean(title, publication_year, author, pk) # {}
    THEN [rows |-> rows, exc |-> "ValidationError"]
    ELSE BookWrite(rows, pk, title, publication_year, author)

FreeBookIds == {b \in BookIds : books[b] = NoRow}
FreeAuthorIds == {a \in AuthorIds : ~authors[a].stored}

\* the id of a new row: the next one of the table's sequence, which is the
\* lowest id no row ever had
NewId(free) == CHOOSE b \in free : \A c \in free : b <= c

\* the id a new book gets (no id is left: a book that passes validation is
\* not modelled, one that fails it is)
NewBookId == IF FreeBookIds = {} THEN UnknownBookId ELSE NewId(FreeBookIds)

\* the body of a request: each field <<value>> or Omitted
Body(title, year, author) ==
    [title |-> title, publication_year |-> year, author |-> author]

\* the field left as it is stored whatever the request sent
InstanceValueKept(sent, stored) == stored

\* ModelSerializer.update: the value of a field after the save, the one of
\* the request if it sent the field, else the one of the instance
InstanceValue(sent, stored) == IF sent = Omitted THEN stored ELSE sent[1]

\* the serializer validated and saved; answer is the status of success
SerializerSave(op, u, pk, target, title, year, author, partial, answer) ==
    LET errs == BookFieldErrors(title, year, author, partial)
        t == IF op = "book_create" THEN title[1]
             ELSE InstanceValue(title, books[pk].title)
        y == IF op = "book_create" THEN year[1]
             ELSE InstanceValue(year, books[pk].publication_year)
        a == IF op = "book_create" THEN author[1]
             ELSE InstanceValue(author, books[pk].author)
        served(resp, data) ==
            [CatalogServed(op, u, pk, IsFuture(year), resp, data)
                EXCEPT !.sent = Body(title, year, author)] IN
    IF errs # {}
    THEN /\ last' = served(Response(400, "errors", ""), errs)
         /\ UNCHANGED books
    ELSE IF BooksWith(t, a, target) # {}
    THEN /\ last' = served(Response(400, "errors", ""), {"non_field_errors"})
         /\ UNCHANGED books
    ELSE LET saved == Book_save_row(books, target, t, y, a) IN
         /\ books' = saved.rows
         /\ last' = served(IF saved.exc = "none"
                           THEN Response(answer, "message", "")
                           ELSE ServerError(saved.exc), {})

\* ---- BookListView: filter_backends, in their order
\* the characters of the titles, names and search terms, as code points
Chars(s) ==
    CASE s = "1984" -> <<49, 57, 56, 52>>
      [] s = "The Hobbit" -> <<84, 104, 101, 32, 72, 111, 98, 98, 105, 116>>
      [] s = "George Orwell" ->
             <<71, 101, 111, 114, 103, 101, 32, 79, 114, 119, 101, 108, 108>>
      [] s = "J.R.R. Tolkien" ->
             <<74, 46, 82, 46, 82, 46, 32, 84, 111, 108, 107, 105, 101, 110>>
      [] s = "hobbit" -> <<104, 111, 98, 98, 105, 116>>
      [] s = "ORWELL" -> <<79, 82, 87, 69, 76, 76>>
      [] s = "e" -> <<101>>

Lower(text) ==
    [i \in DOMAIN text |-> IF text[i] \in 65..90 THEN text[i] + 32 ELSE text[i]]

\* the lookup icontains
icontains(text, term) ==
    LET t == Lower(text)
        w == Lower(term) IN
    \E i \in 0..(Len(t) - Len(w)) : SubSeq(t, i + 1, i + Len(w)) = w

\* an author id no author has
UnknownAuthorId == 3

\* the query parameters of a request, each one <<value>> or Omitted
NoParams ==
    [author |-> Omitted, publication_year |-> Omitted, search |-> Omitted,
     ordering |-> Omitted]

\* an ordering term: "-publication_year" is the field publication_year reversed
OrderingTerm(reverse, field) == [reverse |-> reverse, field |-> field]

\* the query parameters of the requests: an author of the fixture and an
\* unknown one, the first year, each search term, each ordering
QueryParams ==
    [author : Sent({1, UnknownAuthorId}) \cup {Omitted},
     publication_year : Sent({FirstYear}) \cup {Omitted},
     \* one in a title in another case, one in an author's name in another
     \* case, one in titles and in names
     search : Sent({"hobbit", "ORWELL", "e"}) \cup {Omitted},
     ordering : Sent({OrderingTerm(FALSE, "title"),
                      OrderingTerm(TRUE, "publication_year"),
                      OrderingTerm(FALSE, "author__name")}) \cup {Omitted}]

\* DjangoFilterBackend, filterset_fields: the author filter is a choice among
\* the stored authors, anything else is an error of the filter form
FiltersetErrors(params) ==
    IF params.author # Omitted /\ ~AuthorStored(params.author[1])
    THEN {"author"} ELSE {}

\* DjangoFilterBackend.filter_queryset
DjangoFilterBackend(S, params) ==
    {b \in S :
        /\ params.author # Omitted => books[b].author = params.author[1]
        /\ params.publication_year # Omitted =>
               books[b].publication_year = params.publication_year[1]}

\* the search done on the titles alone
SearchFilterTitleOnly(S, params) ==
    {b \in S :
        params.search # Omitted =>
            icontains(Chars(books[b].title), Chars(params.search[1]))}

\* SearchFilter.filter_queryset, search_fields = ['title', 'author__name']
SearchFilter(S, params) ==
    {b \in S :
        params.search # Omitted =>
            \/ icontains(Chars(books[b].title), Chars(params.search[1]))
            \/ icontains(Chars(authors[books[b].author].name),
                         Chars(params.search[1]))}

ordering_fields == {"title", "publication_year", "created_at"}

\* OrderingFilter.get_ordering: a term that names no field of
\* ordering_fields is removed, and with no term left the view's ordering,
\* ['-created_at'], is used
get_ordering(params) ==
    IF params.ordering # Omitted /\ params.ordering[1].field \in ordering_fields
    THEN params.ordering[1]
    ELSE OrderingTerm(TRUE, "created_at")

\* the value a book is ordered by, as a sequence of integers
OrderingKey(b, field) ==
    CASE field = "title" -> Chars(books[b].title)
      [] field = "publication_year" -> <<books[b].publication_year>>
      [] field = "created_at" -> <<books[b].created_at>>
      [] field = "author__name" -> Chars(authors[books[b].author].name)

\* a before b in the order of the database: code point by code point for
\* text, by value for a number
KeyLess(a, b) ==
    \E i \in 1..(Len(a) + 1) :
        /\ \A k \in 1..(i - 1) : k <= Len(b) /\ a[k] = b[k]
        /\ IF i > Len(a) THEN i <= Len(b) ELSE i <= Len(b) /\ a[i] < b[i]

\* the order taken ascending whatever the term says
order_by_ascending(S, term) ==
    {s \in [1..Cardinality(S) -> S] :
        /\ \A i, j \in 1..Cardinality(S) : i # j => s[i] # s[j]
        /\ \A i, j \in 1..Cardinality(S) :
               i < j => ~KeyLess(OrderingKey(s[j], term.field),
                                 OrderingKey(s[i], term.field))}

\* queryset.order_by(term): every order of the rows that follows the term
\* (the order of rows with equal values is the database's)
order_by(S, term) ==
    {s \in [1..Cardinality(S) -> S] :
        /\ \A i, j \in 1..Cardinality(S) : i # j => s[i] # s[j]
        /\ \A i, j \in 1..Cardinality(S) :
               i < j =>
                   IF term.reverse
                   THEN ~KeyLess(OrderingKey(s[i], term.field),
                                 OrderingKey(s[j], term.field))
                   ELSE ~KeyLess(OrderingKey(s[j], term.field),
                                 OrderingKey(s[i], term.field))}

\* BookListView.get
BookListView_get(u, params) ==
    /\ UNCHANGED <<socialVars, siteVars, catalogVars, siteVars>>
    /\ IF FiltersetErrors(params) # {}
       THEN last' = [CatalogServed("book_list", u, 0, FALSE,
                                   Response(400, "errors", ""), <<>>)
                        EXCEPT !.sent = params]
       ELSE \E results \in
                   order_by(SearchFilter(
                                DjangoFilterBackend({b \in BookIds : books[b].stored},
                                                    params), params),
                            get_ordering(params)) :
                last' = [CatalogServed("book_list", u, 0, FALSE,
                                       Response(200, "results", ""), results)
                            EXCEPT !.sent = params]

\* BookDetailView.get
BookDetailView_get(u, pk) ==
    /\ last' = IF BookStored(pk)
               THEN CatalogServed("book_detail", u, pk, FALSE,
                                  Response(200, "id", ""), {pk})
               ELSE CatalogServed("book_detail", u, pk, FALSE, NotFound, {})
    /\ UNCHANGED <<socialVars, siteVars, catalogVars, siteVars>>

\* BookCreateView.post
BookCreateView_post(u) ==
    /\ UNCHANGED <<socialVars, siteVars, authors, current_year>>
    /\ IF ~IsAuthenticated(u)
       THEN /\ last' = CatalogServed("book_create", u, 0, FALSE, Forbidden, {})
            /\ UNCHANGED books
       ELSE \E title \in Titles, year \in PublicationYears, author \in AuthorIds :
                /\ (/\ BookFieldErrors(<<title>>, <<year>>, <<author>>, FALSE) = {}
                    /\ BooksWith(title, author, NewBookId) = {}) => FreeBookIds # {}
                /\ SerializerSave("book_create", u, 0, NewBookId,
                                  <<title>>, <<year>>, <<author>>, FALSE, 201)

\* BookUpdateView.put (partial = FALSE), with every field in the body, and
\* .patch (partial = TRUE), with a body that leaves fields out
BookUpdateView_update(u, pk, partial) ==
    LET op == IF partial THEN "book_partial_update" ELSE "book_update" IN
    /\ UNCHANGED <<socialVars, siteVars, authors, current_year>>
    /\ IF ~CustomIsAuthenticatedOrReadOnly(IF partial THEN "PATCH" ELSE "PUT", u)
       THEN /\ last' = CatalogServed(op, u, pk, FALSE, Forbidden, {})
            /\ UNCHANGED books
       ELSE IF ~BookStored(pk)
       THEN /\ last' = CatalogServed(op, u, pk, FALSE, NotFound, {})
            /\ UNCHANGED books
       ELSE \E title \in Sent(Titles) \cup {Omitted},
               year \in Sent(PublicationYears) \cup {Omitted},
               author \in Sent(AuthorIds) \cup {Omitted} :
                /\ partial <=> Omitted \in {title, year, author}
                /\ SerializerSave(op, u, pk, pk, title, year, author, partial, 200)

\* BookDeleteView.delete
BookDeleteView_delete(u, pk) ==
    /\ UNCHANGED <<socialVars, siteVars, authors, current_year>>
    /\ IF ~IsAuthenticated(u)
       THEN /\ last' = CatalogServed("book_delete", u, pk, FALSE, Forbidden, {})
            /\ UNCHANGED books
       ELSE IF ~BookStored(pk)
       THEN /\ last' = CatalogServed("book_delete", u, pk, FALSE, NotFound, {})
            /\ UNCHANGED books
       ELSE /\ last' = CatalogServed("book_delete", u, pk, FALSE,
                                     Response(204, "message", "Book deleted successfully"), {})
            \* the row leaves nothing stored and an id that is used up
            /\ books' = [books EXCEPT ![pk] =
                             [stored |-> FALSE, deleted |-> TRUE]]

\* AuthorListView.get
AuthorListView_get(u) ==
    /\ last' = CatalogServed("author_list", u, 0, FALSE, Response(200, "results", ""),
                             {a \in AuthorIds : authors[a].stored})
    /\ UNCHANGED <<socialVars, siteVars, catalogVars, siteVars>>

\* AuthorDetailView.get
AuthorDetailView_get(u, pk) ==
    /\ last' = IF AuthorStored(pk)
               THEN CatalogServed("author_detail", u, pk, FALSE,
                                  Response(200, "id", ""), {pk})
               ELSE CatalogServed("author_detail", u, pk, FALSE, NotFound, {})
    /\ UNCHANGED <<socialVars, siteVars, catalogVars, siteVars>>

\* AuthorCreateView.post
AuthorCreateView_post(u) ==
    /\ UNCHANGED <<socialVars, siteVars, books, current_year>>
    /\ IF ~IsAuthenticated(u)
       THEN /\ last' = CatalogServed("author_create", u, 0, FALSE, Forbidden, {})
            /\ UNCHANGED authors
       ELSE /\ FreeAuthorIds # {}
            /\ LET a == NewId(FreeAuthorIds) IN
               /\ authors' = [authors EXCEPT ![a] = AuthorRow(AuthorName(a))]
               /\ last' = CatalogServed("author_create", u, 0, FALSE,
                                        Response(201, "id", ""), {a})

\* BookViewSet.get_permissions: the classes of the action's decorator are
\* not looked at; every action but the four named ones is open to anyone
BookViewSet_get_permissions(action, u) ==
    IF action \in {"create", "update", "partial_update", "destroy"}
    THEN IsAuthenticated(u)
    ELSE TRUE

\* BookViewSet.duplicate: the instance gets pk = None and the title with
\* " (Copy)" at its end, and is saved
BookViewSet_duplicate(u, pk) ==
    /\ UNCHANGED <<socialVars, siteVars, authors, current_year>>
    /\ IF ~BookViewSet_get_permissions("duplicate", u)
       THEN /\ last' = CatalogServed("book_duplicate", u, pk, FALSE, Forbidden, {})
            /\ UNCHANGED books
       ELSE IF ~BookStored(pk)
       THEN /\ last' = CatalogServed("book_duplicate", u, pk, FALSE, NotFound, {})
            /\ UNCHANGED books
       ELSE LET title == books[pk].title \o " (Copy)"
                saved == Book_save_row(books, NewBookId, title,
                                       books[pk].publication_year, books[pk].author) IN
            /\ saved.exc = "none" => FreeBookIds # {}
            /\ books' = saved.rows
            /\ last' = CatalogServed("book_duplicate", u, pk, FALSE,
                                     IF saved.exc = "none"
                                     THEN Response(201, "id", "")
                                     ELSE ServerError(saved.exc),
                                     IF saved.exc = "none" THEN {NewBookId} ELSE {})

\* Book(title=..., publication_year=..., author=...).save(), as the tests
\* and the admin call it
Book_save(title, publication_year, author) ==
    /\ UNCHANGED <<socialVars, siteVars, authors, current_year>>
    /\ Book_full_clean(title, publication_year, author, NewBookId) = {}
           => FreeBookIds # {}
    /\ LET saved == Book_save_row(books, NewBookId,
                                  title, publication_year, author) IN
       /\ books' = saved.rows
       /\ last' = [CatalogServed("Book_save", AnonymousUser, 0,
                                 IsFuture(<<publication_year>>),
                                 Response(0, "exception", saved.exc), {})
                      EXCEPT !.existed = BooksWith(title, author, 0) # {}]

\* the year changes
NewYear ==
    /\ current_year < LastYear
    /\ current_year' = current_year + 1
    /\ UNCHANGED <<socialVars, siteVars, authors, books, last>>

\* ------------------------------------------------- blog, the handlers
\* everything but the tables of the blog
notBlogVars == <<likes, notifications, following, req, crudVars, catalogVars,
                 libraryVars>>

\* the content a form is posted with: "" does not validate
FormContents == Bodies \cup {""}

\* the view answered: a redirect to success_url (302), the form shown again
\* (200), Http404, or an exception that was not caught (500)
BlogServed(op, u, pk, resp) ==
    [op |-> op, user |-> u, pk |-> pk,
     existed |-> IF op \in {"blog_comment_update", "blog_comment_delete"}
                 THEN BlogCommentStored(pk) ELSE BlogPostStored(pk),
     response |-> resp, data |-> <<>>]

Redirect == Response(302, "Location", "")
FormInvalid == Response(200, "form", "This field is required.")

\* the ids no row of the table has
FreeBlogIds(rows) == {i \in DOMAIN rows : ~rows[i].stored}

\* the Comments of a deleted Post are deleted with it
BlogCommentsOnDeletePost(rows, pk) ==
    [c \in CommentIds |->
        IF rows[c].stored /\ rows[c].post = pk THEN NoRow ELSE rows[c]]

\* PostCreateView.post: the form has title, content and tags, and nothing
\* gives the new Post an author; whether the column takes NULL is the
\* schema's
PostCreateView_post(u) ==
    /\ UNCHANGED <<notBlogVars, blog_comments>>
    /\ \E content \in FormContents, null \in BOOLEAN :
           IF content = ""
           THEN /\ last' = BlogServed("blog_post_create", u, 0, FormInvalid)
                /\ UNCHANGED blog_posts
           ELSE IF ~null
           THEN /\ last' = BlogServed("blog_post_create", u, 0,
                                      ServerError("IntegrityError"))
                /\ UNCHANGED blog_posts
           ELSE /\ FreeBlogIds(blog_posts) # {}
                /\ blog_posts' = [blog_posts EXCEPT ![NewId(FreeBlogIds(blog_posts))] =
                                      BlogPostRow(content, NoAuthor)]
                /\ last' = BlogServed("blog_post_create", u, 0, Redirect)

\* PostUpdateView.post
PostUpdateView_post(u, pk) ==
    /\ UNCHANGED <<notBlogVars, blog_comments>>
    /\ \E content \in FormContents :
           IF ~BlogPostStored(pk)
           THEN /\ last' = BlogServed("blog_post_update", u, pk, NotFound)
                /\ UNCHANGED blog_posts
           ELSE IF content = ""
           THEN /\ last' = BlogServed("blog_post_update", u, pk, FormInvalid)
                /\ UNCHANGED blog_posts
           ELSE /\ blog_posts' = [blog_posts EXCEPT ![pk].content = content]
                /\ last' = BlogServed("blog_post_update", u, pk, Redirect)

\* PostDeleteView.post
PostDeleteView_post(u, pk) ==
    /\ UNCHANGED notBlogVars
    /\ IF ~BlogPostStored(pk)
       THEN /\ last' = BlogServed("blog_post_delete", u, pk, NotFound)
            /\ UNCHANGED <<blog_posts, blog_comments>>
       ELSE /\ blog_posts' = [blog_posts EXCEPT ![pk] = NoRow]
            /\ blog_comments' = BlogCommentsOnDeletePost(blog_comments, pk)
            /\ last' = BlogServed("blog_post_delete", u, pk, Redirect)

\* CommentCreateView.post, pk the post of the URL: form_valid gives the
\* comment request.user as author, which raises for AnonymousUser
CommentCreateView_post(u, pk) ==
    /\ UNCHANGED <<notBlogVars, blog_posts>>
    /\ \E content \in FormContents :
           IF content = ""
           THEN /\ last' = BlogServed("blog_comment_create", u, pk, FormInvalid)
                /\ UNCHANGED blog_comments
           ELSE IF ~IsAuthenticated(u)
           THEN /\ last' = BlogServed("blog_comment_create", u, pk,
                                      ServerError("ValueError"))
                /\ UNCHANGED blog_comments
           ELSE IF ~BlogPostStored(pk)
           THEN /\ last' = BlogServed("blog_comment_create", u, pk,
                                      ServerError("IntegrityError"))
                /\ UNCHANGED blog_comments
           ELSE /\ FreeBlogIds(blog_comments) # {}
                /\ blog_comments' =
                       [blog_comments EXCEPT ![NewId(FreeBlogIds(blog_comments))] =
                           [stored |-> TRUE, post |-> pk,
                            content |-> content, author |-> u]]
                /\ last' = BlogServed("blog_comment_create", u, pk, Redirect)

\* CommentUpdateView.post
CommentUpdateView_post(u, pk) ==
    /\ UNCHANGED <<notBlogVars, blog_posts>>
    /\ \E content \in FormContents :
           IF ~BlogCommentStored(pk)
           THEN /\ last' = BlogServed("blog_comment_update", u, pk, NotFound)
                /\ UNCHANGED blog_comments
           ELSE IF content = ""
           THEN /\ last' = BlogServed("blog_comment_update", u, pk, FormInvalid)
                /\ UNCHANGED blog_comments
           ELSE /\ blog_comments' = [blog_comments EXCEPT ![pk].content = content]
                /\ last' = BlogServed("blog_comment_update", u, pk, Redirect)

\* CommentDeleteView.post
CommentDeleteView_post(u, pk) ==
    /\ UNCHANGED <<notBlogVars, blog_posts>>
    /\ IF ~BlogCommentStored(pk)
       THEN /\ last' = BlogServed("blog_comment_delete", u, pk, NotFound)
            /\ UNCHANGED blog_comments
       ELSE /\ blog_comments' = [blog_comments EXCEPT ![pk] = NoRow]
            /\ last' = BlogServed("blog_comment_delete", u, pk, Redirect)

\* ---------------------------------------------- library, the role views
\* hasattr(user, 'userprofile'): AnonymousUser has no such attribute, and
\* for a user without a UserProfile row the access raises
\* RelatedObjectDoesNotExist, which hasattr takes for absence
hasattr_userprofile(user) ==
    user \in Users /\ userprofile[user] # NoProfile

\* the test without the comparison of the role
is_admin_any_role(user) == hasattr_userprofile(user)

is_admin(user) ==
    hasattr_userprofile(user) /\ userprofile[user] = "Admin"

is_librarian(user) ==
    hasattr_userprofile(user) /\ userprofile[user] = "Librarian"

is_member(user) ==
    hasattr_userprofile(user) /\ userprofile[user] = "Member"

\* @user_passes_test(test_func) around a view that renders template: the
\* view is called when the test passes, and redirect_to_login otherwise
user_passes_test(test_func, op, template, u) ==
    /\ last' = [op |-> op, user |-> u, pk |-> 0, existed |-> FALSE,
                data |-> <<>>,
                response |-> IF test_func
                             THEN Response(200, "template", template)
                             ELSE Response(302, "Location", "login")]
    /\ UNCHANGED <<likes, notifications, following, req, crudVars,
                   catalogVars, siteVars>>

admin_view(u) ==
    user_passes_test(is_admin(u), "admin_view",
                     "relationship_app/admin_view.html", u)

librarian_view(u) ==
    user_passes_test(is_librarian(u), "librarian_view",
                     "relationship_app/librarian_view.html", u)

member_view(u) ==
    user_passes_test(is_member(u), "member_view",
                     "relationship_app/member_view.html", u)

\* ------------------------------------------------------------ properties
LikeServed(u, p) == last'.op = "like_post" /\ last'.user = u /\ last'.pk = p
UnlikeServed(u, p) == last'.op = "unlike_post" /\ last'.user = u /\ last'.pk = p
FollowServed(a, b) == last'.op = "follow" /\ last'.user = a /\ last'.pk = b
UnfollowServed(a, b) == last'.op = "unfollow" /\ last'.user = a /\ last'.pk = b

AlreadyLikedResponse == Response(400, "detail", "Already liked")
PostLikedResponse == Response(200, "detail", "Post liked")
PostUnlikedResponse == Response(200, "detail", "Post unliked")
NotLikedResponse == Response(400, "detail", "You haven't liked this post")
SelfFollowResponse == Response(400, "error", "You can't follow yourself.")
FollowedResponse == Response(200, "message", "You are now following")
UnfollowedResponse == Response(200, "message", "You have unfollowed")

\* C1: on every step, for every user U and post P, the number of
\* Notifications with actor U and subject P grows by one exactly when a Like
\* (U,P) is newly created, which only a successful like_post(U,P) does, and
\* does not change otherwise (not on a repeated like, not on an unlike).
C1_NotificationIffNewLike ==
    [][\/ (likes' = likes /\ notifications' = notifications)
       \/ \A u \in Users, p \in PostIds :
              LET newLike == LikeRows(likes, u, p) = 0 /\ LikeRows(likes', u, p) > 0 IN
              /\ NotifCount(notifications', u, p) - NotifCount(notifications, u, p)
                     = IF newLike THEN 1 ELSE 0
              /\ newLike => LikeServed(u, p) /\ last'.response = PostLikedResponse
      ]_vars

\* like, unlike, like, unlike by the same user on the same post: two
\* notifications, no Like
C1_Witness ==
    \E u \in Users, p \in PostIds :
        /\ last.op = "unlike_post" /\ last.user = u /\ last.pk = p
        /\ last.response = PostUnlikedResponse
        /\ NotifCount(notifications, u, p) = 2
        /\ LikeRows(likes, u, p) = 0

\* C2: like_post(U,P) succeeds exactly when (U,P) is not liked; when it is
\* liked the request ends 400 'Already liked' and leaves the Like table and
\* the Notification log as they were.
C2_LikeSucceedsIffNotLiked ==
    [][\A u \in Users, p \in PostIds :
          LikeServed(u, p) =>
              /\ (last'.response = PostLikedResponse) <=> (LikeRows(likes, u, p) = 0)
              /\ LikeRows(likes, u, p) = 0 => LikeRows(likes', u, p) = 1
              /\ LikeRows(likes, u, p) > 0 =>
                     /\ last'.response = AlreadyLikedResponse
                     /\ likes' = likes
                     /\ notifications' = notifications
      ]_vars

\* like then like again: the second ends 'Already liked', one Notification
C2_Witness ==
    \E u \in Users, p \in PostIds :
        /\ last.op = "like_post" /\ last.user = u /\ last.pk = p
        /\ last.response = AlreadyLikedResponse
        /\ LikeRows(likes, u, p) = 1
        /\ NotifCount(notifications, u, p) = 1
        /\ Len(notifications) = 1

\* C3: unlike_post(U,P) succeeds exactly when (U,P) is liked and then removes
\* that Like and no other; when (U,P) is not liked it ends 400 and changes
\* nothing; an unlike never writes a Notification.
C3_UnlikeSucceedsIffLiked ==
    [][\A u \in Users, p \in PostIds :
          UnlikeServed(u, p) =>
              /\ (last'.response = PostUnlikedResponse) <=> (LikeRows(likes, u, p) > 0)
              /\ LikeRows(likes, u, p) > 0 =>
                     likes' = [likes EXCEPT ![<<u, p>>] = 0]
              /\ LikeRows(likes, u, p) = 0 =>
                     /\ last'.response = NotLikedResponse
                     /\ likes' = likes
              /\ notifications' = notifications
              /\ following' = following
      ]_vars

\* like, unlike, unlike: the last call fails, one Notification (the like's)
C3_Witness ==
    \E u \in Users, p \in PostIds :
        /\ last.op = "unlike_post" /\ last.user = u /\ last.pk = p
        /\ last.response = NotLikedResponse
        /\ ~last.existed
        /\ LikeRows(likes, u, p) = 0
        /\ NotifCount(notifications, u, p) = 1

\* ---- concurrent like_post requests
AllDone == \A r \in Requests : req[r].pc = "done"
Quiet(u, p) == \A r \in Requests : Running(r) => ~(req[r].user = u /\ req[r].pk = p)
RequestsOn(u, p) == {r \in Requests : req[r].user = u /\ req[r].pk = p}

\* C4: when like_post requests that ran concurrently from the not-liked state
\* have all ended, then for every (U,P) some of them named exactly one ended
\* 'Post liked', the others ended 'Already liked', and one Like row and one
\* Notification for (U,P) exist, whatever the interleaving of their steps.
C4_ConcurrentLikesOneWinner ==
    AllDone =>
        \A u \in Users, p \in PostIds :
            RequestsOn(u, p) # {} =>
                /\ Cardinality({r \in RequestsOn(u, p) :
                                   req[r].response = PostLikedResponse}) = 1
                /\ \A r \in RequestsOn(u, p) :
                       req[r].response \in {PostLikedResponse, AlreadyLikedResponse}
                /\ LikeRows(likes, u, p) = 1
                /\ NotifCount(notifications, u, p) = 1

\* every slot served a like_post of the same user on the same post
C4_Witness ==
    /\ AllDone
    /\ \E u \in Users, p \in PostIds : RequestsOn(u, p) = Requests
    /\ \E r \in Requests : req[r].response = AlreadyLikedResponse

\* C5: a like_post request is all-or-nothing: once no request on (U,P) is in
\* flight, whether it ended with success or with a failure at any step, a
\* Like (U,P) exists if and only if its Notification exists.
C5_LikeAllOrNothing ==
    \A u \in Users, p \in PostIds :
        Quiet(u, p) =>
            (LikeRows(likes, u, p) > 0 <=> NotifCount(notifications, u, p) > 0)

OthersUnchanged(a) ==
    \A c \in Users \ {a} : followees_of(following', c) = followees_of(following, c)

\* C7: a follow request whose target is the requesting user ends with the 400
\* self-follow error and leaves the follow relation unchanged.
C7_SelfFollowRejected ==
    [][\A a \in Users :
          FollowServed(a, a) =>
              /\ last'.response = SelfFollowResponse
              /\ following' = following
      ]_vars

\* a self-follow was refused while the requester follows somebody
C7_Witness ==
    /\ last.op = "follow" /\ last.user \in Users /\ last.pk = last.user
    /\ last.response = SelfFollowResponse
    /\ followees_of(following, last.user) # {}

\* C8: for distinct users A and B, right after follow(A,B) the follow-set of A
\* contains B, right after unfollow(A,B) it does not, both calls succeed, and
\* neither changes the follow-set of any other user.
C8_FollowThenUnfollow ==
    [][\A a \in Users : \A b \in Users \ {a} :
          /\ FollowServed(a, b) =>
                 /\ last'.response = FollowedResponse
                 /\ b \in followees_of(following', a)
                 /\ OthersUnchanged(a)
          /\ UnfollowServed(a, b) =>
                 /\ last'.response = UnfollowedResponse
                 /\ b \notin followees_of(following', a)
                 /\ OthersUnchanged(a)
      ]_vars

\* A unfollowed B, whom A followed, while B follows A
C8_Witness ==
    \E a \in Users : \E b \in Users \ {a} :
        /\ last.op = "unfollow" /\ last.user = a /\ last.pk = b
        /\ last.existed
        /\ last.response = UnfollowedResponse
        /\ b \notin followees_of(following, a)
        /\ a \in followees_of(following, b)

\* C9: follow(A,B) when A already follows B succeeds and leaves the follow
\* relation exactly as it was: one edge row from A to B.
C9_FollowIdempotent ==
    [][\A a \in Users : \A b \in Users \ {a} :
          (FollowServed(a, b) /\ following[<<a, b>>] > 0) =>
              /\ last'.response = FollowedResponse
              /\ following' = following
              /\ following'[<<a, b>>] = 1
      ]_vars

\* a follow of an edge that was already stored
C9_Witness ==
    \E a \in Users : \E b \in Users \ {a} :
        /\ last.op = "follow" /\ last.user = a /\ last.pk = b
        /\ last.existed
        /\ last.response = FollowedResponse
        /\ following[<<a, b>>] = 1

\* C10: unfollow(A,B) for an existing user B whom A does not follow succeeds
\* with the confirmation response and leaves the follow relation unchanged.
C10_UnfollowIdempotent ==
    [][\A a \in Users, b \in Users :
          (UnfollowServed(a, b) /\ following[<<a, b>>] = 0) =>
              /\ last'.response = UnfollowedResponse
              /\ following' = following
      ]_vars

\* an unfollow of an absent edge while the requester follows somebody
C10_Witness ==
    \E a \in Users : \E b \in Users :
        /\ last.op = "unfollow" /\ last.user = a /\ last.pk = b
        /\ ~last.existed
        /\ last.response = UnfollowedResponse
        /\ followees_of(following, a) # {}

\* ---- feed
FeedServed(u) == last'.op = "user_feed" /\ last'.user = u
FeedResponse == Response(200, "posts", "")
SeqRange(s) == {s[i] : i \in DOMAIN s}

C12_FeedOrderDetermined ==
    last.op = "user_feed" =>
        \A i, j \in DOMAIN last.data :
            i < j =>
                \/ PostCreatedAt(last.data[i]) > PostCreatedAt(last.data[j])
                \/ /\ PostCreatedAt(last.data[i]) = PostCreatedAt(last.data[j])
                   /\ last.data[i] > last.data[j]

\* C13: no user follows themself, and a feed read by U returns no post
\* authored by U.
C13_NoSelfFollowNoOwnPost ==
    /\ \A u \in Users : following[<<u, u>>] = 0
    /\ last.op = "user_feed" =>
           \A i \in DOMAIN last.data : PostAuthor(last.data[i]) # last.user

\* a feed read by a user who has posts of their own and follows somebody
C13_Witness ==
    /\ last.op = "user_feed" /\ last.user \in Users
    /\ last.response = FeedResponse
    /\ \E p \in PostIds : PostAuthor(p) = last.user
    /\ followees_of(following, last.user) # {}

\* ---- notification contents
\* C17: a like_post(U,P) that ends 'Post liked' appends exactly one
\* Notification whose recipient is the author of P, whose actor is U, whose
\* verb is 'liked your post' and whose subject is the post P; also when U is
\* the author of P.
C17_NotificationFields ==
    [][\A u \in Users, p \in PostIds :
          (LikeServed(u, p) /\ last'.response = PostLikedResponse) =>
              /\ Len(notifications') = Len(notifications) + 1
              /\ SubSeq(notifications', 1, Len(notifications)) = notifications
              /\ LET n == notifications'[Len(notifications')] IN
                 /\ n.recipient = PostAuthor(p)
                 /\ n.actor = u
                 /\ n.verb = "liked your post"
                 /\ n.content_type = "post"
                 /\ n.object_id = p
      ]_vars

\* a like by somebody else and then a like by the author, on the author's
\* own post: both notify the author
C17_Witness ==
    /\ Len(notifications) = 2
    /\ last.op = "like_post" /\ last.response = PostLikedResponse
    /\ PostAuthor(last.pk) = last.user
    /\ notifications[2].actor = last.user
    /\ notifications[2].recipient = last.user
    /\ notifications[1].actor # notifications[1].recipient
    /\ notifications[1].object_id = last.pk

\* ---- unknown ids
\* C14: a follow or unfollow by a user that names an id no user has, and a
\* like or unlike by a user that names an id no post has, end with status
\* 404 and leave the follow relation, the Like table and the Notification
\* log as they were.
C14_UnknownIdNotFound ==
    [][\A u \in Users :
          /\ \A user_id \in UserIdInputs \ Users :
                 (FollowServed(u, user_id) \/ UnfollowServed(u, user_id)) =>
                     /\ last'.response.status = 404
                     /\ following' = following
                     /\ likes' = likes
                     /\ notifications' = notifications
          /\ \A pk \in PostIdInputs :
                 (~PostStored(pk) /\ (LikeServed(u, pk) \/ UnlikeServed(u, pk))) =>
                     /\ last'.response.status = 404
                     /\ following' = following
                     /\ likes' = likes
                     /\ notifications' = notifications
      ]_vars

\* an unlike of an unknown post was answered 404 while a Like, its
\* Notification and a follow edge are stored
C14_Witness ==
    /\ last.op = "unlike_post" /\ last.user \in Users
    /\ last.pk = UnknownPostId
    /\ last.response = NotFound
    /\ \E p \in PostIds : LikeRows(likes, last.user, p) = 1
    /\ notifications # <<>>
    /\ followees_of(following, last.user) # {}

\* ---- the whole API, requests in flight together
StoresUnchanged ==
    /\ following' = following
    /\ posts' = posts
    /\ comments' = comments
    /\ likes' = likes
    /\ notifications' = notifications

\* C15: a write request (follow, unfollow, like, unlike, create / update /
\* delete of a post or a comment) that carries no authenticated identity is
\* answered 401 or 403 by the permission check, on the step it arrives with,
\* never enters the view body, and that step leaves follow edges, posts,
\* comments, likes and notifications as they were.
C15_UnauthenticatedWriteRejected ==
    [][\A r \in Requests :
          (req'[r].op \in WriteOps /\ req'[r].user = AnonymousUser) =>
              /\ req'[r].pc = "done"
              /\ req'[r].response.status \in {401, 403}
              /\ req[r] # req'[r] => StoresUnchanged
      ]_vars

\* an unauthenticated delete of a stored comment was refused, the comment an
\* authenticated request created is still stored
C15_Witness ==
    \E r \in Requests, q \in Requests :
        /\ req[r].pc = "done" /\ req[r].op = "comment_destroy"
        /\ req[r].user = AnonymousUser
        /\ req[r].response.status \in {401, 403}
        /\ CommentStored(req[r].pk)
        /\ req[q].pc = "done" /\ req[q].op = "comment_create"
        /\ req[q].response.status = 201

\* C16: no step of any request of the API (like, unlike, follow, unfollow,
\* feed read, post or comment create / update / delete) deletes or changes a
\* Notification: the log after the step starts with the log before it.
C16_NotificationsAppendOnly ==
    [][/\ Len(notifications') >= Len(notifications)
       /\ SubSeq(notifications', 1, Len(notifications)) = notifications
      ]_vars

\* a second Notification was appended behind the first, by two like_post
\* requests that have both ended
C16_Witness ==
    /\ Len(notifications) = 2
    /\ notifications[1] # notifications[2]
    /\ \A r \in Requests :
           /\ req[r].pc = "done" /\ req[r].op = "like_post"
           /\ req[r].response = Response(200, "detail", "Post liked")

\* ---- book catalog
BookWriteOps == {"book_create", "book_update", "book_partial_update"}
CatalogWriteOps == BookWriteOps \cup {"book_delete", "author_create"}

\* C18: for a client without authentication, a list of books or of authors
\* answers 200 with the stored rows, a retrieve of a stored book or author
\* answers 200 (404 when the id is not stored), and a create, PUT, PATCH or
\* delete of a book and a create of an author answer 403 and leave the Book
\* and Author tables as they were.
C18_PublicReadsGatedWrites ==
    [][last'.user = AnonymousUser =>
          /\ (last'.op = "book_list" /\ last'.sent = NoParams) =>
                 /\ last'.response.status = 200
                 /\ SeqRange(last'.data) = {b \in BookIds : books[b].stored}
          /\ last'.op = "author_list" =>
                 /\ last'.response.status = 200
                 /\ last'.data = {a \in AuthorIds : authors[a].stored}
          /\ last'.op \in {"book_detail", "author_detail"} =>
                 last'.response.status = IF last'.existed THEN 200 ELSE 404
          /\ last'.op \in CatalogWriteOps =>
                 /\ last'.response.status = 403
                 /\ books' = books
                 /\ authors' = authors
      ]_vars

\* an unauthenticated PATCH of a stored book was refused
C18_Witness ==
    /\ last.op = "book_partial_update" /\ last.user = AnonymousUser
    /\ last.existed
    /\ last.response.status = 403
    /\ BookStored(last.pk)

C20_DuplicateIntegrityError ==
    /\ (last.op = "Book_save" /\ last.existed) =>
           last.response.text = "IntegrityError"
    /\ \A b \in BookIds : \A c \in BookIds \ {b} :
           (books[b].stored /\ books[c].stored) =>
               ~(books[b].title = books[c].title /\ books[b].author = books[c].author)

\* ---- book list
\* the texts that hold a term whatever the case of the letters
HoldsTerm ==
    {<<"The Hobbit", "hobbit">>, <<"George Orwell", "ORWELL">>,
     <<"The Hobbit", "e">>, <<"George Orwell", "e">>, <<"J.R.R. Tolkien", "e">>}

\* the stored books that satisfy every criterion of the query
BooksAsked(params) ==
    {b \in BookIds :
        /\ books[b].stored
        /\ params.author # Omitted => books[b].author = params.author[1]
        /\ params.publication_year # Omitted =>
               books[b].publication_year = params.publication_year[1]
        /\ params.search # Omitted =>
               \/ <<books[b].title, params.search[1]>> \in HoldsTerm
               \/ <<authors[books[b].author].name, params.search[1]>> \in HoldsTerm}

\* C21: a GET of the book list returns each stored book that satisfies every
\* supplied criterion (author id, publication year, search term held by the
\* title or by the author's name whatever the case) exactly once, and no
\* other book; it answers 200 unless the author criterion names an id no
\* author has, and without criterion it returns every stored book.
C21_ListReturnsMatchingBooks ==
    [][last'.op = "book_list" =>
          /\ SeqRange(last'.data) = BooksAsked(last'.sent)
          /\ Len(last'.data) = Cardinality(SeqRange(last'.data))
          /\ (last'.sent.author = Omitted \/ AuthorStored(last'.sent.author[1])) =>
                 last'.response.status = 200
          /\ last'.sent = NoParams =>
                 SeqRange(last'.data) = {b \in BookIds : books[b].stored}
      ]_vars

\* a list asked with an author, a year and a search term that only the
\* author's name holds returned a book and left a stored book out
C21_Witness ==
    /\ last.op = "book_list"
    /\ last.sent.author = <<1>>
    /\ last.sent.publication_year = <<FirstYear>>
    /\ last.sent.search = <<"ORWELL">>
    /\ last.data # <<>>
    /\ \E b \in BookIds : books[b].stored /\ b \notin SeqRange(last.data)

\* the pairs of titles of which the first sorts before the second
TitleBefore == {<<"1984", "The Hobbit">>}

\* C22: the books of a list asked with ordering=title come with their titles
\* ascending, those of a list asked with ordering=-publication_year with
\* their publication years descending, and in both cases the books returned
\* are the ones the same query returns without the ordering parameter.
C22_OrderingSortsOnly ==
    [][(last'.op = "book_list" /\ last'.response.status = 200
           /\ last'.sent.ordering # Omitted) =>
          LET term == last'.sent.ordering[1]
              data == last'.data IN
          /\ term = OrderingTerm(FALSE, "title") =>
                 \A i, j \in DOMAIN data :
                     i < j => <<books[data[j]].title, books[data[i]].title>>
                                  \notin TitleBefore
          /\ term = OrderingTerm(TRUE, "publication_year") =>
                 \A i, j \in DOMAIN data :
                     i < j => books[data[i]].publication_year
                                  >= books[data[j]].publication_year
          /\ term.field \in {"title", "publication_year"} =>
                 /\ SeqRange(data) = BooksAsked([last'.sent EXCEPT !.ordering = Omitted])
                 /\ Len(data) = Cardinality(SeqRange(data))
      ]_vars

\* a list asked with ordering=-publication_year returned two books, the
\* older row first because its publication year is the later one
C22_Witness ==
    /\ last.op = "book_list"
    /\ last.sent.ordering = <<OrderingTerm(TRUE, "publication_year")>>
    /\ Len(last.data) = 2
    /\ books[last.data[1]].publication_year > books[last.data[2]].publication_year
    /\ books[last.data[1]].created_at < books[last.data[2]].created_at

\* the pairs of author names of which the first sorts before the second
NameBefore == {<<"George Orwell", "J.R.R. Tolkien">>}

\* C23: the books of a list asked with ordering=author__name come with the
\* names of their authors ascending.
C23_OrderedByAuthorName ==
    (/\ last.op = "book_list" /\ last.response.status = 200
     /\ last.sent.ordering = <<OrderingTerm(FALSE, "author__name")>>) =>
        \A i, j \in DOMAIN last.data :
            i < j => <<authors[books[last.data[j]].author].name,
                       authors[books[last.data[i]].author].name>> \notin NameBefore

C28_DuplicateAlwaysSucceeds ==
    [][(/\ last'.op = "book_duplicate" /\ last'.user # AnonymousUser
        /\ last'.existed) =>
          /\ last'.response.status = 201
          /\ \E n \in BookIds :
                 /\ books[n] = NoRow
                 /\ books'[n].stored
                 /\ books'[n].title = books[last'.pk].title \o " (Copy)"
                 /\ books'[n].author = books[last'.pk].author
                 /\ books'[n].publication_year = books[last'.pk].publication_year
                 /\ \A b \in BookIds \ {n} : books'[b] = books[b]
      ]_vars

LikedBefore(u, p) ==
    /\ last.op = "like_post" /\ last.user = u /\ last.pk = p
    /\ last.response = PostLikedResponse

\* what like_post then unlike_post, and unlike_post then like_post, by u on
\* p leave when each runs alone, from the state liked or not: the two
\* responses, the Like rows and the Notifications of (u, p)
SerialOutcomes(liked) ==
    {[like |-> IF liked THEN AlreadyLikedResponse ELSE PostLikedResponse,
      unlike |-> PostUnlikedResponse,
      rows |-> 0, notifications |-> 1],
     [like |-> PostLikedResponse,
      unlike |-> IF liked THEN PostUnlikedResponse ELSE NotLikedResponse,
      rows |-> 1, notifications |-> IF liked THEN 2 ELSE 1]}

\* C26: when a like_post and an unlike_post by the same user on the same
\* post ran concurrently, with no other request on that pair, and both have
\* ended, their two responses, the Like rows and the Notifications of the
\* pair are those that like_post then unlike_post, or unlike_post then
\* like_post, leave when run one after the other from the same state.
C26_LikeUnlikeSerializable ==
    AllDone =>
        \A u \in Users, p \in PostIds :
            \A r1 \in Requests, r2 \in Requests :
                (/\ req[r1].op = "like_post" /\ req[r2].op = "unlike_post"
                 /\ RequestsOn(u, p) = {r1, r2}) =>
                    [like |-> req[r1].response, unlike |-> req[r2].response,
                     rows |-> LikeRows(likes, u, p),
                     notifications |-> NotifCount(notifications, u, p)]
                        \in SerialOutcomes(LikedBefore(u, p))

\* from the liked state, the like_post was answered 'Post liked' and the
\* unlike_post 'Post unliked', and the pair is liked with two notifications
C26_Witness ==
    /\ AllDone
    /\ \E u \in Users, p \in PostIds :
           /\ LikedBefore(u, p)
           /\ \E r1 \in Requests, r2 \in Requests :
                  /\ req[r1].op = "like_post" /\ req[r2].op = "unlike_post"
                  /\ RequestsOn(u, p) = {r1, r2}
                  /\ req[r1].response = PostLikedResponse
                  /\ req[r2].response = PostUnlikedResponse
           /\ LikeRows(likes, u, p) = 1
           /\ NotifCount(notifications, u, p) = 2

\* ---- what adds a Notification
\* C27: a step of a comment creation, of a follow or of an unfollow leaves
\* the Notification log and the Like store as they are; the only step that
\* changes the log is the one that ends a like_post with 'Post liked', and
\* it appends one Notification.
C27_OnlyLikeNotifies ==
    [][/\ \A r \in Requests :
              (req'[r] # req[r]
                   /\ req'[r].op \in {"comment_create", "follow", "unfollow"}) =>
                  /\ notifications' = notifications
                  /\ likes' = likes
       /\ notifications' # notifications =>
              /\ Len(notifications') = Len(notifications) + 1
              /\ \E r \in Requests :
                     /\ req[r].op = "like_post" /\ req[r].pc # "done"
                     /\ req'[r].pc = "done"
                     /\ req'[r].response = PostLikedResponse
                     /\ notifications'[Len(notifications')].actor = req[r].user
                     /\ notifications'[Len(notifications')].object_id = req[r].pk
      ]_vars

\* a comment was created and a user followed, and no Notification exists
C27_Witness ==
    /\ notifications = <<>>
    /\ \E r \in Requests :
           /\ req[r].pc = "done" /\ req[r].op = "comment_create"
           /\ req[r].response.status = 201
    /\ \E r \in Requests :
           /\ req[r].pc = "done" /\ req[r].op = "follow"
           /\ req[r].response.status = 200
           /\ following[<<req[r].user, req[r].pk>>] > 0

\* ---- blog
BlogWriteOps ==
    {"blog_post_create", "blog_post_update", "blog_post_delete",
     "blog_comment_create", "blog_comment_update", "blog_comment_delete"}

\* C25: a create, update or delete of a Post or of a Comment of the blog
\* requested without an authenticated user leaves the Post and Comment
\* tables as they were.
C25_BlogWritesNeedLogin ==
    [][(last'.op \in BlogWriteOps /\ ~IsAuthenticated(last'.user)) =>
          /\ blog_posts' = blog_posts
          /\ blog_comments' = blog_comments
      ]_vars

\* ---- library
\* the role a view is for
ViewRole(op) ==
    CASE op = "admin_view" -> "Admin"
      [] op = "librarian_view" -> "Librarian"
      [] op = "member_view" -> "Member"

RoleViewOps == {"admin_view", "librarian_view", "member_view"}

\* the tests a user passes
TestsPassed(u) ==
    {op \in RoleViewOps :
        CASE op = "admin_view" -> is_admin(u)
          [] op = "librarian_view" -> is_librarian(u)
          [] op = "member_view" -> is_member(u)}

\* C30: admin_view, librarian_view and member_view are rendered exactly for
\* a user whose profile has the role 'Admin', 'Librarian', 'Member'
\* respectively, and every other request is redirected; a user without a
\* profile passes none of the three tests and a user with a profile passes
\* at most one.
C30_RoleViewsByProfileRole ==
    [][/\ last'.op \in RoleViewOps =>
            /\ last'.response.status \in {200, 302}
            /\ last'.response.status = 200 <=>
                  /\ last'.user \in Users
                  /\ userprofile[last'.user] = ViewRole(last'.op)
       /\ \A u \in Requesters :
            /\ (u \notin Users \/ userprofile[u] = NoProfile)
                  => TestsPassed(u) = {}
            /\ Cardinality(TestsPassed(u)) <= 1
      ]_vars

C30_Witness ==
    /\ last.op = "librarian_view"
    /\ last.response.status = 200
    /\ userprofile[last.user] = "Librarian"
    /\ \E u \in Users : userprofile[u] = NoProfile

\* ------------------------------------------------------- specifications
\* the engagement service, requests served one at a time
Next ==
    \/ \E u \in Requesters, pk \in PostIdInputs : like_post(u, pk)
    \/ \E u \in Requesters, pk \in PostIdInputs : unlike_post(u, pk)

Spec == Init /\ [][Next]_vars

\* the relationship store and its reader, the feed, requests served one at
\* a time
NextFollow ==
    \/ \E u \in Requesters, user_id \in UserIdInputs : FollowUserView_post(u, user_id)
    \/ \E u \in Requesters, user_id \in UserIdInputs : UnfollowUserView_post(u, user_id)
    \/ \E u \in Requesters : user_feed(u)

SpecFollow == Init /\ [][NextFollow]_vars

\* NumRequests like_post requests in flight together, each slot used once
NextLikeRace ==
    \/ \E r \in Requests, u \in Requesters, pk \in PostIdInputs :
           StartRequest(r, "like_post", u, pk)
    \/ \E r \in Requests : LikeSteps(r)

SpecLikeRace == Init /\ [][NextLikeRace]_vars

\* the same, with a store that may fail the Notification INSERT
NextFault ==
    \/ NextLikeRace
    \/ \E r \in Requests : NotifyFail(r)

SpecFault == Init /\ [][NextFault]_vars

\* like_post and unlike_post requests in flight together, each slot used once
NextConc ==
    \/ \E r \in Requests, op \in {"like_post", "unlike_post"},
          u \in Requesters, pk \in PostIdInputs : StartRequest(r, op, u, pk)
    \/ \E r \in Requests : LikeSteps(r)
    \/ \E r \in Requests : UnlikeSteps(r)

SpecConc == Init /\ [][NextConc]_vars

\* like_post and unlike_post requests in flight together, after at most one
\* like_post served alone: the pair they name is liked or not when they start
NextLikeUnlike ==
    \/ \E u \in Users, pk \in PostIds :
           /\ last = NoRequest
           /\ \A r \in Requests : req[r].pc = "idle"
           /\ like_post(u, pk)
    \/ \E r \in Requests, op \in {"like_post", "unlike_post"},
          u \in Users, pk \in PostIds : StartRequest(r, op, u, pk)
    \/ \E r \in Requests : LikeSteps(r)
    \/ \E r \in Requests : UnlikeSteps(r)

SpecLikeUnlike == Init /\ [][NextLikeUnlike]_vars

\* the engagement service and the relationship store together, requests
\* served one at a time
NextSocial ==
    \/ Next
    \/ NextFollow

SpecSocial == Init /\ [][NextSocial]_vars

\* every request of the social API, NumRequests of them in flight together,
\* each slot used once
NextApi ==
    \/ \E r \in Requests, op \in ApiOps, u \in Requesters :
           \E pk \in PkInputs(op) : StartRequest(r, op, u, pk)
    \/ \E r \in Requests : LikeSteps(r)
    \/ \E r \in Requests : UnlikeSteps(r)
    \/ \E r \in Requests : FollowSteps(r)
    \/ \E r \in Requests : ViewSetSteps(r)

SpecApi == Init /\ [][NextApi]_vars

\* the book catalog, requests served one at a time
NextCatalog ==
    \/ \E u \in Clients : BookListView_get(u, NoParams)
    \/ \E u \in Clients, pk \in BookIdInputs : BookDetailView_get(u, pk)
    \/ \E u \in Clients : BookCreateView_post(u)
    \/ \E u \in Clients, pk \in BookIdInputs, partial \in BOOLEAN :
           BookUpdateView_update(u, pk, partial)
    \/ \E u \in Clients, pk \in BookIdInputs : BookDeleteView_delete(u, pk)
    \/ \E u \in Clients : AuthorListView_get(u)
    \/ \E u \in Clients, pk \in AuthorIds : AuthorDetailView_get(u, pk)
    \/ \E u \in Clients : AuthorCreateView_post(u)
    \/ \E title \in Titles, year \in PublicationYears, author \in AuthorIds :
           Book_save(title, year, author)
    \/ NewYear

SpecCatalog == Init /\ [][NextCatalog]_vars

\* the book list asked with query parameters, while books are created,
\* changed and deleted and the year changes
NextList ==
    \/ \E params \in QueryParams : BookListView_get(AnonymousUser, params)
    \/ BookCreateView_post(TestUser)
    \/ \E pk \in BookIds, partial \in BOOLEAN :
           BookUpdateView_update(TestUser, pk, partial)
    \/ \E pk \in BookIds : BookDeleteView_delete(TestUser, pk)
    \/ AuthorCreateView_post(TestUser)
    \/ NewYear

SpecList == Init /\ [][NextList]_vars

\* books duplicated, while books are created and deleted
NextDuplicate ==
    \/ \E u \in Clients, pk \in BookIdInputs : BookViewSet_duplicate(u, pk)
    \/ \E u \in Clients : BookCreateView_post(u)
    \/ \E u \in Clients, pk \in BookIdInputs : BookDeleteView_delete(u, pk)
    \/ \E u \in Clients : BookListView_get(u, NoParams)
    \/ \E u \in Clients, pk \in BookIdInputs : BookDetailView_get(u, pk)
    \/ NewYear

SpecDuplicate == Init /\ [][NextDuplicate]_vars

\* validate_publication_year called with each integer, in each year
NextValidate ==
    \* the values: around 0, around 1000, and from before the first year to
    \* after the last one
    \/ \E value \in (-2..2) \cup (995..1005)
                       \cup ((FirstYear - 25)..(LastYear + 10)) :
          BookSerializer_validate_publication_year(value)
    \/ NewYear

SpecValidate == Init /\ [][NextValidate]_vars

\* the blog, requests served one at a time
NextBlog ==
    \/ \E u \in Requesters : PostCreateView_post(u)
    \/ \E u \in Requesters, pk \in PostIdInputs : PostUpdateView_post(u, pk)
    \/ \E u \in Requesters, pk \in PostIdInputs : PostDeleteView_post(u, pk)
    \/ \E u \in Requesters, pk \in PostIdInputs : CommentCreateView_post(u, pk)
    \/ \E u \in Requesters, pk \in CommentIdInputs : CommentUpdateView_post(u, pk)
    \/ \E u \in Requesters, pk \in CommentIdInputs : CommentDeleteView_post(u, pk)

SpecBlog == Init /\ [][NextBlog]_vars

\* the role views of the library, for every assignment of profiles
NextLibrary ==
    \/ \E u \in Requesters : admin_view(u)
    \/ \E u \in Requesters : librarian_view(u)
    \/ \E u \in Requesters : member_view(u)

SpecLibrary == InitLibrary /\ [][NextLibrary]_vars

====
